---- MODULE Spec2Model ----
(***************************************************************************)
(* FractionalCore (src/src/fractional-core.js): the covenant-gated codec   *)
(* that writes the 1-bits of a text as expressions equal to 1.             *)
(*                                                                         *)
(* Representation.                                                         *)
(*  - A text is a sequence of UTF-16 code units (what split('') and        *)
(*    charCodeAt(0) see); a bit string is a sequence of 0/1.               *)
(*  - A number is kept in fixed point: v stands for v / Scale.             *)
(*  - Expression texts are ASCII transliterations of the catalog's texts   *)
(*    (sqrt for the root sign, int for the integral sign, -> for the       *)
(*    arrow, ^2 and t for the superscript two and theta); the code only    *)
(*    ever compares them with ===.                                         *)
(***************************************************************************)
EXTENDS Integers, Sequences, FiniteSets, TLC

VARIABLES
    covenantAccepted,   \* this.covenantAccepted
    institutionId,      \* this.institutionId
    verificationCount,  \* this.verificationCount
    call,               \* the last call made on the instance and its outcome
    session,            \* the caller's copy of the last text it encoded and the grid it got
    held,               \* an identity set the caller kept from an earlier call,
                        \* with the name and size it asked for and the count at that time
    log,                \* the log entries the last call produced, in order
    logTotal,           \* how many times logVerification has run so far
    gen,                \* the expression search in progress
    captcha,            \* a MathematicalCAPTCHA: its challenges, attempts and clock
    defi,               \* a DeFiReserveSystem: its reserves, deposits and loans
    royalty             \* a RoyaltyDistribution: its works and revenues

vars == <<covenantAccepted, institutionId, verificationCount, call, session, held,
          log, logTotal, gen, captcha, defi, royalty>>

(***************************************************************************)
(* Bounds of the model.                                                    *)
(***************************************************************************)
MaxLen == 3        \* longest text of the encode/decode pipeline
MaxCount == 3      \* no logging call starts once verificationCount reached it
MaxSetSize == 2    \* largest identity set asked for
MaxCells == 5      \* longest cell sequence handed to formatAsGrid
MaxWidth == 3      \* widest row asked of formatAsGrid
MaxChallenge == 5  \* largest identity set asked for as a challenge

(***************************************************************************)
(* Numbers.                                                                *)
(***************************************************************************)
Scale == 10 ^ 5
Tolerance == Scale \div 10000
One == 1 * Scale

Abs(x) == IF x < 0 THEN -x ELSE x
Min(a, b) == IF a < b THEN a ELSE b

\* Math.sqrt on the perfect squares the catalog uses
Sqrt(n) == CHOOSE r \in 0..n : r * r = n

RECURSIVE factorial(_)
factorial(n) == IF n = 0 THEN 1 ELSE n * factorial(n - 1)

(***************************************************************************)
(* The catalog.                                                            *)
(***************************************************************************)
\* a catalog whose entry sqrt4/2 forgot the division
getStandardFractionsUndivided ==
    << [expr |-> "sqrt1",   value |-> Sqrt(1) * Scale],
       [expr |-> "sqrt4/2", value |-> Sqrt(4) * Scale] >>

getStandardFractions ==
    << [expr |-> "sqrt1",   value |-> Sqrt(1) * Scale],
       [expr |-> "0!",      value |-> factorial(0) * Scale],
       [expr |-> "|-1|",    value |-> Abs(-1) * Scale],
       [expr |-> "7^0",     value |-> (7 ^ 0) * Scale],
       [expr |-> "(2+2)/4", value |-> ((2 + 2) * Scale) \div 4],
       [expr |-> "1/1",     value |-> (1 * Scale) \div 1],
       [expr |-> "2-1",     value |-> (2 - 1) * Scale],
       [expr |-> "sqrt4/2", value |-> (Sqrt(4) * Scale) \div 2],
       [expr |-> "(3-1)/2", value |-> ((3 - 1) * Scale) \div 2],
       [expr |-> "sqrt9/3", value |-> (Sqrt(9) * Scale) \div 3],
       [expr |-> "0.25*4",  value |-> (Scale \div 4) * 4],
       [expr |-> "0.1*10",  value |-> (Scale \div 10) * 10],
       [expr |-> "sqrt16/4", value |-> (Sqrt(16) * Scale) \div 4],
       [expr |-> "sqrt25/5", value |-> (Sqrt(25) * Scale) \div 5],
       [expr |-> "(6-4)/2", value |-> ((6 - 4) * Scale) \div 2],
       [expr |-> "sqrt36/6", value |-> (Sqrt(36) * Scale) \div 6] >>

getAdvancedFractions ==
    << [expr |-> "int(dx)",             value |-> 1 * Scale],
       [expr |-> "lim(x->1) x",         value |-> 1 * Scale],
       [expr |-> "sin^2(t) + cos^2(t)", value |-> 1 * Scale],
       [expr |-> "e^(ln1)",             value |-> 1 * Scale],
       [expr |-> "det(I)",              value |-> 1 * Scale] >>

(***************************************************************************)
(* Outcomes of a call: what it returned or threw, and how many times it    *)
(* ran logVerification.                                                    *)
(***************************************************************************)
Return(v, n) == [error |-> "none", result |-> v, logs |-> n]
Throw(msg) == [error |-> "Error", result |-> msg, logs |-> 0]

(***************************************************************************)
(* encode                                                                  *)
(***************************************************************************)
\* toString2 with the least significant digit first
RECURSIVE toString2Reversed(_)
toString2Reversed(n) ==
    IF n < 2 THEN <<n>> ELSE <<n % 2>> \o toString2Reversed(n \div 2)

\* Number.prototype.toString(2): the binary digits without leading zeros
RECURSIVE toString2(_)
toString2(n) == IF n < 2 THEN <<n>> ELSE Append(toString2(n \div 2), n % 2)

\* String.prototype.padStart(targetLength, fill): never shortens
padStart(s, targetLength, fill) ==
    IF Len(s) >= targetLength THEN s
    ELSE [i \in 1..(targetLength - Len(s)) |-> fill] \o s

\* binaryOf without the padStart(8, '0')
RECURSIVE binaryOfUnpadded(_)
binaryOfUnpadded(text) ==
    IF text = <<>> THEN <<>>
    ELSE toString2(Head(text)) \o binaryOfUnpadded(Tail(text))

\* text.split('').map(char => char.charCodeAt(0).toString(2).padStart(8, '0')).join('')
RECURSIVE binaryOf(_)
binaryOf(text) ==
    IF text = <<>> THEN <<>>
    ELSE padStart(toString2(Head(text)), 8, 0) \o binaryOf(Tail(text))

\* encodeLoop without the fractionIndex++
RECURSIVE encodeLoopStuck(_, _, _)
encodeLoopStuck(binary, fractions, fractionIndex) ==
    IF binary = <<>> THEN <<>>
    ELSE IF Head(binary) = 1
         THEN <<fractions[(fractionIndex % Len(fractions)) + 1].expr>>
              \o encodeLoopStuck(Tail(binary), fractions, fractionIndex)
         ELSE <<"0">> \o encodeLoopStuck(Tail(binary), fractions, fractionIndex)

\* the for loop over the bits with its running fractionIndex
RECURSIVE encodeLoop(_, _, _)
encodeLoop(binary, fractions, fractionIndex) ==
    IF binary = <<>> THEN <<>>
    ELSE IF Head(binary) = 1
         THEN <<fractions[(fractionIndex % Len(fractions)) + 1].expr>>
              \o encodeLoop(Tail(binary), fractions, fractionIndex + 1)
         ELSE <<"0">> \o encodeLoop(Tail(binary), fractions, fractionIndex)

\* formatAsGrid that drops a last row shorter than width
RECURSIVE formatAsGridTruncating(_, _)
formatAsGridTruncating(encoded, width) ==
    IF Len(encoded) < width THEN <<>>
    ELSE <<SubSeq(encoded, 1, width)>>
         \o formatAsGridTruncating(SubSeq(encoded, width + 1, Len(encoded)), width)

\* for (let i = 0; i < encoded.length; i += width) grid.push(encoded.slice(i, i + width))
RECURSIVE formatAsGrid(_, _)
formatAsGrid(encoded, width) ==
    IF encoded = <<>> THEN <<>>
    ELSE <<SubSeq(encoded, 1, Min(width, Len(encoded)))>>
         \o formatAsGrid(SubSeq(encoded, width + 1, Len(encoded)), width)

\* encode without its covenant check
encodeUnchecked(text, useAdvanced) ==
    LET fractions == IF useAdvanced
                     THEN getStandardFractions \o getAdvancedFractions
                     ELSE getStandardFractions
        encoded == encodeLoop(binaryOf(text), fractions, 0)
    IN  Return(formatAsGrid(encoded, 8), 1)

encode(text, useAdvanced) ==
    IF ~covenantAccepted
    THEN Throw("Must accept Memorial Covenant before encoding")
    ELSE LET fractions == IF useAdvanced
                          THEN getStandardFractions \o getAdvancedFractions
                          ELSE getStandardFractions
             encoded == encodeLoop(binaryOf(text), fractions, 0)
         IN  Return(formatAsGrid(encoded, 8), 1)

(***************************************************************************)
(* verify                                                                  *)
(***************************************************************************)
\* standardFractions.find(f => f.expr === expression): the first match, 0 for none
find(expression) ==
    LET hits == {i \in DOMAIN getStandardFractions :
                    getStandardFractions[i].expr = expression}
    IN  IF hits = {} THEN 0 ELSE CHOOSE i \in hits : \A j \in hits : i <= j

verify(expression, expectedValue) ==
    IF ~covenantAccepted
    THEN Throw("Must accept Memorial Covenant before verification")
    ELSE LET match == find(expression)
         IN  IF match # 0
             THEN Return(Abs(getStandardFractions[match].value - expectedValue) < Tolerance, 1)
             ELSE Return(FALSE, 0)

\* verify called with a third argument that compares against that argument
verifyWithTolerance(expression, expectedValue, tolerance) ==
    IF ~covenantAccepted
    THEN Throw("Must accept Memorial Covenant before verification")
    ELSE LET match == find(expression)
         IN  IF match # 0
             THEN Return(Abs(getStandardFractions[match].value - expectedValue) < tolerance, 1)
             ELSE Return(FALSE, 0)

\* verify(expression, expectedValue = 1) called with a third argument: the
\* function declares two parameters, so the third is dropped
verifyWith(expression, expectedValue, tolerance) == verify(expression, expectedValue)

(***************************************************************************)
(* decode                                                                  *)
(***************************************************************************)
\* Array.prototype.flat() on a grid of rows
RECURSIVE flat(_)
flat(grid) == IF grid = <<>> THEN <<>> ELSE Head(grid) \o flat(Tail(grid))

\* parseInt(byte, 2) on a string of binary digits
RECURSIVE parseInt2(_)
parseInt2(byte) ==
    IF byte = <<>> THEN 0
    ELSE 2 * parseInt2(SubSeq(byte, 1, Len(byte) - 1)) + byte[Len(byte)]

\* the for loop over the bytes: a slice shorter than 8 is skipped
RECURSIVE decodeLoop(_)
decodeLoop(binary) ==
    IF binary = <<>> THEN <<>>
    ELSE LET byte == SubSeq(binary, 1, Min(8, Len(binary)))
             rest == decodeLoop(SubSeq(binary, 9, Len(binary)))
         IN  IF Len(byte) = 8 THEN <<parseInt2(byte)>> \o rest ELSE rest

RECURSIVE SumLogs(_)
SumLogs(outs) == IF outs = <<>> THEN 0 ELSE Head(outs).logs + SumLogs(Tail(outs))

decode(encodedGrid) ==
    IF ~covenantAccepted
    THEN Throw("Must accept Memorial Covenant before decoding")
    ELSE LET cells == flat(encodedGrid)
             checks == [i \in 1..Len(cells) |->
                          IF cells[i] = "0" THEN Return(FALSE, 0)
                          ELSE verify(cells[i], One)]
             binary == [i \in 1..Len(cells) |->
                          IF cells[i] = "0" THEN 0
                          ELSE IF checks[i].result THEN 1 ELSE 0]
         IN  Return(decodeLoop(binary), SumLogs(checks) + 1)

(***************************************************************************)
(* generateIdentitySet                                                     *)
(***************************************************************************)
\* name.split('').reduce((acc, char) => acc + char.charCodeAt(0), 0)
RECURSIVE charCodeSum(_)
charCodeSum(name) == IF name = <<>> THEN 0 ELSE Head(name) + charCodeSum(Tail(name))

RECURSIVE identityLoop(_, _, _, _)
identityLoop(seed, i, setSize, allFractions) ==
    IF i >= setSize THEN <<>>
    ELSE LET next == (seed * 9301 + 49297) % 233280
             index == next % Len(allFractions)
         IN  <<allFractions[index + 1]>>
             \o identityLoop(next, i + 1, setSize, allFractions)

\* generateIdentitySet seeding its generator with the running count as well
generateIdentitySetCounted(name, setSize) ==
    IF ~covenantAccepted
    THEN Throw("Must accept Memorial Covenant before identity generation")
    ELSE Return(identityLoop(charCodeSum(name) + verificationCount, 0, setSize,
                             getStandardFractions \o getAdvancedFractions), 0)

\* generateIdentitySet logging its call as encode and decode do
generateIdentitySetLogged(name, setSize) ==
    IF ~covenantAccepted
    THEN Throw("Must accept Memorial Covenant before identity generation")
    ELSE Return(identityLoop(charCodeSum(name), 0, setSize,
                             getStandardFractions \o getAdvancedFractions), 1)

generateIdentitySet(name, setSize) ==
    IF ~covenantAccepted
    THEN Throw("Must accept Memorial Covenant before identity generation")
    ELSE Return(identityLoop(charCodeSum(name), 0, setSize,
                             getStandardFractions \o getAdvancedFractions), 0)

(***************************************************************************)
(* acceptCovenant                                                          *)
(***************************************************************************)
acceptCovenant(id, covenantAgreement) ==
    IF ~covenantAgreement.humanitarianCommitment
    THEN Throw("Covenant requires commitment to humanity's betterment")
    ELSE Return(TRUE, 0)

(***************************************************************************)
(* logVerification: this.verificationCount++                               *)
(***************************************************************************)
\* logVerification without the increment
logVerificationStuck(count) == count

logVerification(count) == count + 1

RECURSIVE logged(_, _)
logged(count, n) == IF n = 0 THEN count ELSE logged(logVerification(count), n - 1)

\* const logEntry = { verificationId, institution, operation, timestamp,
\* covenantTriggered }; the timestamp is left out
logEntry(count, operation) ==
    [verificationId |-> count, institution |-> institutionId,
     operation |-> operation, covenantTriggered |-> TRUE]

\* the operations a call logs: decode logs a "verify" for every cell that
\* verify matched and then its own "decode"; encode and verify log themselves
LogOperations(op, n) == [i \in 1..n |-> IF i < n THEN "verify" ELSE op]

\* the entries that logging these operations one after the other produces
RECURSIVE logEntries(_, _)
logEntries(count, operations) ==
    IF operations = <<>> THEN <<>>
    ELSE <<logEntry(logVerification(count), Head(operations))>>
         \o logEntries(logVerification(count), Tail(operations))

(***************************************************************************)
(* generateExpressions(target, minCount = 5): the search for minCount       *)
(* different expressions of the target value, one candidate per attempt.   *)
(* An expression text is kept as the form it was built from and the        *)
(* parameter of that form; catalog texts are their own form.               *)
(***************************************************************************)
\* the largest magnitude a number can have; beyond it lies Infinity
FloatMax == 20000 * Scale

\* at most 100 x 100 synthesis attempts
MaxAttempts == 100 * 100

\* minCount when the caller passes none
DefaultMinCount == 5

\* target!/(target-1)! is only built for targets up to 20
FactorialLimit == 20

\* the expressions of the catalog that are equal to 0
ZeroPool ==
    << [expr |-> "0",      value |-> 0],
       [expr |-> "0*1000", value |-> 0 * 1000],
       [expr |-> "sin(0)", value |-> 0],
       [expr |-> "ln(1)",  value |-> 0],
       [expr |-> "1-1",    value |-> (1 - 1) * Scale] >>

\* step 1: the pool drawn from first when target is exactly 1 or 0
CatalogPool(target) ==
    IF target = One THEN getStandardFractions
    ELSE IF target = 0 THEN ZeroPool
    ELSE <<>>

IsInteger(target) == target % Scale = 0

\* a candidate that was built, and an attempt that built none
Built(form, arg, stable, value) ==
    [built |-> TRUE, text |-> [form |-> form, arg |-> arg],
     stable |-> stable, value |-> value]
NotBuilt ==
    [built |-> FALSE, text |-> [form |-> "", arg |-> 0], stable |-> FALSE, value |-> 0]

\* step 2: the parametric forms, in the order the design lists them.  A
\* candidate is unstable when a number on the way to its value leaves
\* -FloatMax..FloatMax.
ParametricForm(target, j) ==
    IF j = 1 THEN Built("target", 0, TRUE, target)
    ELSE IF j = 2 THEN Built("target-1+1", 0, target >= One - FloatMax, target)
    ELSE IF j = 3 THEN Built("target*2/2", 0, Abs(target) <= FloatMax \div 2, target)
    ELSE IF j = 4
    THEN Built("sqrt(target^2)", 0,
               (Abs(target) \div Scale + 1) * (Abs(target) \div Scale + 1)
                   <= FloatMax \div Scale,
               Abs(target))
    ELSE IF j = 5 THEN Built("target^1", 0, TRUE, target)
    ELSE IF IsInteger(target) /\ One <= target /\ target <= FactorialLimit * Scale
    THEN Built("target!/(target-1)!", 0, TRUE, target)
    ELSE NotBuilt

\* the integer decompositions a+b and a*b of an integer target, taken in
\* turn: a+b with a = 1, 2, ... and b = target - a; a*b with a = 2, 3, ...
\* when a divides target
Decomposition(target, n) ==
    IF n % 2 = 1
    THEN LET a == (n + 1) \div 2
         IN  Built("a+b", a, target >= a * Scale - FloatMax, target)
    ELSE LET a == n \div 2 + 1
         IN  IF (target \div Scale) % a = 0
             THEN Built("a*b", a, TRUE, target)
             ELSE NotBuilt

\* how many forms step 2 has before the decompositions
FormCount == 6

\* whether the search has a k-th candidate to try at all
HasCandidate(target, k) ==
    k <= Len(CatalogPool(target)) + FormCount \/ IsInteger(target)

\* the candidate of the k-th attempt
Candidate(target, k) ==
    LET pool == CatalogPool(target)
    IN  IF k <= Len(pool)
        THEN Built(pool[k].expr, 0, TRUE, pool[k].value)
        ELSE IF k <= Len(pool) + FormCount
        THEN ParametricForm(target, k - Len(pool))
        ELSE Decomposition(target, k - Len(pool) - FormCount)

\* a verifier that lets every candidate through
VerifiesAlways(candidate, target) == TRUE

\* the candidate's value is within the tolerance of the target
Verifies(candidate, target) == Abs(candidate.value - target) < Tolerance

\* step 3: a candidate is kept when it was built, is stable, verifies
\* against the target and its text is not among those found
Accepted(candidate, target, found) ==
    /\ candidate.built
    /\ candidate.stable
    /\ Verifies(candidate, target)
    /\ \A i \in 1..Len(found) : found[i].text # candidate.text

\* a budget that is never used up
WithinBudgetAlways(attempts) == TRUE

\* step 4: the search budget
WithinBudget(attempts) == attempts < MaxAttempts

(***************************************************************************)
(* The calls as steps of the instance.                                     *)
(***************************************************************************)
Called(op, args, out) ==
    [op |-> op, args |-> args, error |-> out.error, result |-> out.result]

\* what the logVerification calls of one operation leave behind
Logging(op, out) ==
    /\ log' = logEntries(verificationCount, LogOperations(op, out.logs))
    /\ logTotal' = logTotal + Len(log')

\* acceptCovenant that withdraws the acceptance when it throws
AcceptCovenantRevoking(id, covenantAgreement) ==
    \E out \in {acceptCovenant(id, covenantAgreement)} :
        /\ call' = Called("acceptCovenant", <<id, covenantAgreement>>, out)
        /\ IF out.error = "none"
           THEN /\ covenantAccepted' = TRUE
                /\ institutionId' = id
           ELSE /\ covenantAccepted' = FALSE
                /\ institutionId' = "null"
        /\ UNCHANGED verificationCount
        /\ Logging("acceptCovenant", out)

AcceptCovenant(id, covenantAgreement) ==
    \E out \in {acceptCovenant(id, covenantAgreement)} :
        /\ call' = Called("acceptCovenant", <<id, covenantAgreement>>, out)
        /\ IF out.error = "none"
           THEN /\ covenantAccepted' = TRUE
                /\ institutionId' = id
           ELSE UNCHANGED <<covenantAccepted, institutionId>>
        /\ UNCHANGED verificationCount
        /\ Logging("acceptCovenant", out)

Encode(text, useAdvanced) ==
    /\ verificationCount < MaxCount
    /\ \E out \in {encode(text, useAdvanced)} :
        /\ call' = Called("encode", <<text, useAdvanced>>, out)
        /\ verificationCount' = logged(verificationCount, out.logs)
        /\ Logging("encode", out)
        /\ UNCHANGED <<covenantAccepted, institutionId>>

Verify(expression, expectedValue) ==
    /\ verificationCount < MaxCount
    /\ \E out \in {verify(expression, expectedValue)} :
        /\ call' = Called("verify", <<expression, expectedValue>>, out)
        /\ verificationCount' = logged(verificationCount, out.logs)
        /\ Logging("verify", out)
        /\ UNCHANGED <<covenantAccepted, institutionId>>

VerifyWith(expression, expectedValue, tolerance) ==
    /\ verificationCount < MaxCount
    /\ \E out \in {verifyWith(expression, expectedValue, tolerance)} :
        /\ call' = Called("verify", <<expression, expectedValue, tolerance>>, out)
        /\ verificationCount' = logged(verificationCount, out.logs)
        /\ Logging("verify", out)
        /\ UNCHANGED <<covenantAccepted, institutionId>>

Decode(encodedGrid) ==
    /\ verificationCount < MaxCount
    /\ \E out \in {decode(encodedGrid)} :
        /\ call' = Called("decode", <<encodedGrid>>, out)
        /\ verificationCount' = logged(verificationCount, out.logs)
        /\ Logging("decode", out)
        /\ UNCHANGED <<covenantAccepted, institutionId>>

\* logVerification called on the instance directly: it has no covenant check
LogVerification(operation) ==
    /\ verificationCount < MaxCount
    /\ \E out \in {Return(logEntry(logVerification(verificationCount), operation), 1)} :
        /\ call' = Called("logVerification", <<operation>>, out)
        /\ verificationCount' = logVerification(verificationCount)
        /\ Logging(operation, out)
        /\ UNCHANGED <<covenantAccepted, institutionId>>

\* formatAsGrid called on the instance directly: no covenant check, no log
FormatAsGrid(encoded, width) ==
    \E out \in {Return(formatAsGrid(encoded, width), 0)} :
        /\ call' = Called("formatAsGrid", <<encoded, width>>, out)
        /\ Logging("formatAsGrid", out)
        /\ UNCHANGED <<covenantAccepted, institutionId, verificationCount>>

GenerateIdentitySet(name, setSize) ==
    \E out \in {generateIdentitySet(name, setSize)} :
        /\ call' = Called("generateIdentitySet", <<name, setSize>>, out)
        /\ verificationCount' = logged(verificationCount, out.logs)
        /\ Logging("generateIdentitySet", out)
        /\ UNCHANGED <<covenantAccepted, institutionId>>

(***************************************************************************)
(* MathematicalCAPTCHA (src/examples/mathematical_captcha.js and its        *)
(* variant with a grandma mode, src/unnamed/part_000).                     *)
(*  - A session id stands for the text CAPTCHA-<time>-<random>: the n-th   *)
(*    id issued is n, so ids are never reused.                             *)
(*  - An expression text is <<template, a, b>>: the template with its      *)
(*    numbers left out, and the numbers; two texts are === exactly when    *)
(*    these agree.                                                         *)
(*  - An option id is <<"visual", index>>, <<"opt", k>> or <<"wrong", i>>. *)
(*  - userAnswers is the set new Set(userAnswers) makes of it.             *)
(*  - score and precision are kept as <<numerator, denominator>>; 0/0 is   *)
(*    NaN, which is >= nothing.                                            *)
(*  - Times are milliseconds; Date.now() is captcha.now.                   *)
(***************************************************************************)
ChallengeLifetime == 300000
GrandmaLifetime == 600000
ChallengeMaxAttempts == 3
GrandmaMaxAttempts == 5
ScoreTenths == 8
PrecisionTenths == 6

\* Math.floor(Math.random() * n) + low: every value it can return
selectTargetValue(difficulty) ==
    IF difficulty = "easy" THEN 1..10
    ELSE IF difficulty = "medium" THEN 10..59
    ELSE 20..119

findCoprime(n) == n * 2

findPrimeCount(n) ==
    LET primes == <<2, 3, 5, 7, 11, 13, 17, 19, 23, 29, 31, 37, 41, 43, 47>>
    IN  primes[Min(n - 1, Len(primes) - 1) + 1]

\* `${target / 2}` is the text of an integer when target is even
generateExpressionsFor(target, difficulty) ==
    LET halfOf == IF target % 2 = 0 THEN <<"n", target \div 2, 0>>
                                    ELSE <<"n/2", target, 0>>
    IN
    IF difficulty = "easy" THEN
        [valid  |-> << <<"n", target, 0>>, <<"n + 1", target - 1, 0>>,
                       <<"n - 1", target + 1, 0>>, <<"n / 2", target * 2, 0>>,
                       <<"sqrt(n)", target * target, 0>> >>,
         decoys |-> << <<"n", target + 1, 0>>, <<"n", target - 1, 0>>,
                       <<"n", target * 2, 0>>, halfOf >>]
    ELSE IF difficulty = "medium" THEN
        [valid  |-> << <<"n! / m!", target, target - 1>>, <<"n^m", target, 1>>,
                       <<"log(10^n)", target, 0>>, <<"sin2(x) + cos2(x) x n", target, 0>>,
                       <<"lcm(n, m)", target, target>>,
                       <<"gcd(n, m)", target * 5, target * 3>> >>,
         decoys |-> << <<"n! / m!", target, target>>, <<"n^m", target, 0>>,
                       <<"log(n)", target, 0>>, <<"sin(n pi/180)", target, 0>>,
                       <<"lcm(n, m)", target, target + 1>> >>]
    ELSE IF difficulty = "hard" THEN
        [valid  |-> << <<"sum(i) from 1 to n", target, 0>>, <<"int 0..n 1 dx", target, 0>>,
                       <<"det([[n, 0], [0, 1]])", target, 0>>,
                       <<"G(n) / m!", target + 1, target>>,
                       <<"phi(n)", findCoprime(target), 0>>,
                       <<"pi(n)", findPrimeCount(target), 0>> >>,
         decoys |-> << <<"sum(i2) from 1 to n", target, 0>>, <<"int 0..n x dx", target, 0>>,
                       <<"det([[n, 1], [1, n]])", target, 0>>, <<"G(n)", target, 0>>,
                       <<"phi(n)", target, 0>>, <<"pi(n)", target, 0>> >>]
    ELSE [valid |-> <<>>, decoys |-> <<>>]

\* Math.floor(Math.random() * (i + 1)) of the shuffle: the draws are named by
\* a rule (always i, always 0, always the middle) so that a whole shuffle is
\* one input
ShuffleRules == {"keep", "front", "middle"}

RECURSIVE shuffleLoop(_, _, _)
shuffleLoop(shuffled, i, rule) ==
    IF i > 0
    THEN LET j == IF rule = "keep" THEN i ELSE IF rule = "front" THEN 0 ELSE i \div 2
             swapped == [shuffled EXCEPT ![i + 1] = shuffled[j + 1],
                                         ![j + 1] = shuffled[i + 1]]
         IN  shuffleLoop(swapped, i - 1, rule)
    ELSE shuffled

shuffle(array, rule) == shuffleLoop(array, Len(array) - 1, rule)

createVisualChallenges(expressions, rule) ==
    LET shuffled == shuffle(expressions.valid \o expressions.decoys, rule)
    IN  [index \in 1..Len(shuffled) |->
            [id      |-> <<"visual", index - 1>>,
             display |-> shuffled[index],
             isValid |-> \E k \in 1..Len(expressions.valid) :
                            expressions.valid[k] = shuffled[index]]]

\* generateGrandmaChallenge: opt-1..opt-3 (opt-4 is pushed and sliced away)
\* and the first three numbers that are not the target
grandmaOptions(target) ==
    LET correctOptions ==
            [k \in 1..(IF target > 1 THEN 4 ELSE 3) |->
                [id |-> <<"opt", k>>, display |-> <<"n", target, k>>, isValid |-> TRUE]]
        others == SelectSeq(<<1, 2, 3, 4, 5>>, LAMBDA i : i # target)
        wrongOptions ==
            [k \in 1..Len(others) |->
                [id |-> <<"wrong", others[k]>>, display |-> <<"n", others[k], 0>>,
                 isValid |-> FALSE]]
    IN  SubSeq(correctOptions, 1, 3) \o SubSeq(wrongOptions, 1, 3)

\* n / d >= tenths / 10, false for NaN (d = 0)
atLeast(ratio, tenths) == ratio[2] > 0 /\ 10 * ratio[1] >= tenths * ratio[2]

verifyAnswersStrict(challenge, userAnswers) ==
    LET selected == userAnswers
        visual == {challenge.visual[k] : k \in 1..Len(challenge.visual)}
        validIds == {v.id : v \in {w \in visual : w.isValid}}
        invalidIds == {v.id : v \in {w \in visual : ~w.isValid}}
        correct == Cardinality(validIds \cap selected)
        incorrect == Cardinality(validIds \ selected)
                        + Cardinality(invalidIds \cap selected)
        score == <<correct, Cardinality(validIds)>>
        precision == <<correct, IF correct + incorrect = 0 THEN 1 ELSE correct + incorrect>>
    IN  [valid     |-> atLeast(score, ScoreTenths + 1) /\ atLeast(precision, PrecisionTenths),
         score     |-> score,
         precision |-> precision]

verifyAnswers(challenge, userAnswers) ==
    LET selected == userAnswers
        visual == {challenge.visual[k] : k \in 1..Len(challenge.visual)}
        validIds == {v.id : v \in {w \in visual : w.isValid}}
        invalidIds == {v.id : v \in {w \in visual : ~w.isValid}}
        correct == Cardinality(validIds \cap selected)
        incorrect == Cardinality(validIds \ selected)
                        + Cardinality(invalidIds \cap selected)
        score == <<correct, Cardinality(validIds)>>
        precision == <<correct, IF correct + incorrect = 0 THEN 1 ELSE correct + incorrect>>
    IN  [valid     |-> atLeast(score, ScoreTenths) /\ atLeast(precision, PrecisionTenths),
         score     |-> score,
         precision |-> precision]

\* the variables a CAPTCHA call leaves alone
NotCaptcha ==
    <<covenantAccepted, institutionId, verificationCount, call, session, held,
      log, logTotal, gen, defi, royalty>>

StoreChallenge(challenge, op, args) ==
    LET sessionId == captcha.issued + 1
    IN  /\ captcha' = [captcha EXCEPT
                          !.challenges = (sessionId :> challenge) @@ @,
                          !.issued = sessionId,
                          !.call = [op |-> op, args |-> args,
                                    result |-> [sessionId |-> sessionId]]]
        /\ UNCHANGED NotCaptcha

\* generateChallenge(difficulty) of src/examples/mathematical_captcha.js, and of
\* src/unnamed/part_000 for a difficulty that is neither grandma nor easy
GenerateChallenge(difficulty, target, rule) ==
    /\ target \in selectTargetValue(difficulty)
    /\ StoreChallenge(
          [target      |-> target,
           difficulty  |-> difficulty,
           visual      |-> createVisualChallenges(
                              generateExpressionsFor(target, difficulty), rule),
           created     |-> captcha.now,
           expires     |-> captcha.now + ChallengeLifetime,
           attempts    |-> 0,
           maxAttempts |-> ChallengeMaxAttempts],
          "generateChallenge", <<difficulty>>)

\* generateChallenge('grandma' or 'easy') of src/unnamed/part_000
GenerateGrandmaChallenge(difficulty, target, rule) ==
    /\ difficulty \in {"grandma", "easy"}
    /\ target \in 1..5
    /\ StoreChallenge(
          [target      |-> target,
           difficulty  |-> "grandma",
           visual      |-> shuffle(grandmaOptions(target), rule),
           created     |-> captcha.now,
           expires     |-> captcha.now + GrandmaLifetime,
           attempts    |-> 0,
           maxAttempts |-> GrandmaMaxAttempts],
          "generateGrandmaChallenge", <<difficulty>>)

\* Map.delete(key)
withoutKept(map, key) == map

without(map, key) == [k \in DOMAIN map \ {key} |-> map[k]]

\* challenge.attempts++; challenge.attempts > challenge.maxAttempts
overLimitLate(challenge) == challenge.attempts + 1 > challenge.maxAttempts + 1

overLimit(challenge) == challenge.attempts + 1 > challenge.maxAttempts

\* _logAttempt: of an attempt only verification.valid is kept
logAttempt(attempts, sessionId, verification) ==
    LET before == IF sessionId \in DOMAIN attempts THEN attempts[sessionId] ELSE <<>>
    IN  (sessionId :> Append(before, [valid |-> verification.valid])) @@ attempts

VerifyResponse(sessionId, userAnswers) ==
    LET args == <<sessionId, userAnswers>>
        Returned(result) == [op |-> "verifyResponse", args |-> args, result |-> result]
    IN
    /\ UNCHANGED NotCaptcha
    /\ IF sessionId \notin DOMAIN captcha.challenges
       THEN captcha' = [captcha EXCEPT !.call =
                Returned([valid |-> FALSE, reason |-> "Session expired or invalid"])]
       ELSE LET challenge == captcha.challenges[sessionId] IN
            IF captcha.now > challenge.expires
            THEN captcha' = [captcha EXCEPT
                    !.challenges = without(@, sessionId),
                    !.call = Returned([valid |-> FALSE, reason |-> "Challenge expired"])]
            ELSE IF overLimit(challenge)
            THEN captcha' = [captcha EXCEPT
                    !.challenges = without(@, sessionId),
                    !.call = Returned([valid |-> FALSE, reason |-> "Too many attempts"])]
            ELSE \E verification \in {verifyAnswers(challenge, userAnswers)} :
                 captcha' = [captcha EXCEPT
                    !.challenges =
                        IF verification.valid
                        THEN without(@, sessionId)
                        ELSE [@ EXCEPT ![sessionId].attempts = challenge.attempts + 1],
                    !.attempts = logAttempt(@, sessionId, verification),
                    !.human = IF verification.valid THEN @ + 1 ELSE @,
                    !.call = Returned(
                        [valid |-> verification.valid,
                         score |-> verification.score,
                         attemptsRemaining |->
                            challenge.maxAttempts - (challenge.attempts + 1)])]

\* time passes between two calls
Elapse(ms) ==
    /\ captcha' = [captcha EXCEPT !.now = @ + ms]
    /\ UNCHANGED NotCaptcha

(***************************************************************************)
(* DeFiReserveSystem (src/unnamed/part_001).                               *)
(*  - An amount is a whole number of units; a ratio is in fixed point, so  *)
(*    amount * ratio is (amount * ratio) \div Scale.                       *)
(*  - deposits and loans are Maps under ids DEP-<time>-<random> and         *)
(*    LOAN-<time>-<random>: sequences, in the order of the calls.          *)
(*  - The FractionalCore these classes require ('../fractional-core.js',   *)
(*    with encode of an object and hash) is not the class modelled above:  *)
(*    its encode and hash are taken to return a proof and a digest.        *)
(*  - Of a deposit, a loan and an audit entry, the fields kept are the     *)
(*    ones a later call reads.                                             *)
(***************************************************************************)
fcEncode(data) == <<"proof", data>>

fcHash(text) == <<"hash", text>>

times(amount, ratio) == (amount * ratio) \div Scale

\* the variables a DeFiReserveSystem call leaves alone
NotDefi ==
    <<covenantAccepted, institutionId, verificationCount, call, session, held,
      log, logTotal, gen, captcha, royalty>>

logAudit(auditLog, action) == Append(auditLog, [action |-> action, hash |-> fcHash(action)])

DefiReturned(op, args, result) ==
    [op |-> op, args |-> args, error |-> "none", result |-> result]

DefiThrown(op, args, message) ==
    [op |-> op, args |-> args, error |-> message, result |-> "none"]

CreateReservePool(poolId, initialAmount, reserveRatio) ==
    /\ defi' = [defi EXCEPT
          !.reserves = (poolId :>
                [total     |-> initialAmount,
                 required  |-> times(initialAmount, reserveRatio),
                 available |-> times(initialAmount, One - reserveRatio),
                 ratio     |-> reserveRatio,
                 proof     |-> fcEncode("ratioProof")]) @@ @,
          !.auditLog = logAudit(@, "POOL_CREATED"),
          !.call = DefiReturned("createReservePool",
                      <<poolId, initialAmount, reserveRatio>>, "created")]
    /\ UNCHANGED NotDefi

ProcessDeposit(userId, amount, poolId) ==
    /\ UNCHANGED NotDefi
    /\ IF poolId \notin DOMAIN defi.reserves
       THEN defi' = [defi EXCEPT !.call =
                DefiThrown("processDeposit", <<userId, amount, poolId>>, "Pool not found")]
       ELSE \E total \in {defi.reserves[poolId].total + amount} :
            defi' = [defi EXCEPT
               !.reserves[poolId].total = total,
               !.reserves[poolId].required = times(total, defi.reserves[poolId].ratio),
               !.reserves[poolId].available =
                    times(total, One - defi.reserves[poolId].ratio),
               !.deposits = Append(@, [userId |-> userId, amount |-> amount,
                                       poolId |-> poolId,
                                       proof |-> fcEncode("depositProof")]),
               !.auditLog = logAudit(@, "DEPOSIT"),
               !.call = DefiReturned("processDeposit", <<userId, amount, poolId>>,
                           [total |-> total,
                            available |-> times(total, One - defi.reserves[poolId].ratio)])]

IssueLoan(borrowerId, requestAmount, collateral, poolId) ==
    /\ UNCHANGED NotDefi
    /\ IF poolId \notin DOMAIN defi.reserves
       THEN defi' = [defi EXCEPT !.call =
                DefiThrown("issueLoan", <<borrowerId, requestAmount, collateral, poolId>>,
                           "Pool not found")]
       ELSE IF requestAmount > defi.reserves[poolId].available
       THEN defi' = [defi EXCEPT !.call =
                DefiThrown("issueLoan", <<borrowerId, requestAmount, collateral, poolId>>,
                           "Insufficient liquidity")]
       ELSE defi' = [defi EXCEPT
               !.loans = Append(@, [borrowerId |-> borrowerId, amount |-> requestAmount,
                                    collateral |-> fcEncode("collateralProof"),
                                    poolId |-> poolId, status |-> "active"]),
               !.reserves[poolId].available = @ - requestAmount,
               !.auditLog = logAudit(@, "LOAN_ISSUED"),
               !.call = DefiReturned("issueLoan",
                           <<borrowerId, requestAmount, collateral, poolId>>,
                           [principal |-> requestAmount])]

RECURSIVE reduceAmount(_, _)
reduceAmount(entries, poolId) ==
    IF entries = <<>> THEN 0
    ELSE (IF Head(entries).poolId = poolId THEN Head(entries).amount ELSE 0)
            + reduceAmount(Tail(entries), poolId)

GenerateAuditProof(poolId) ==
    /\ UNCHANGED NotDefi
    /\ IF poolId \notin DOMAIN defi.reserves
       THEN defi' = [defi EXCEPT !.call =
                DefiThrown("generateAuditProof", <<poolId>>, "Pool not found")]
       ELSE defi' = [defi EXCEPT
               !.auditLog = logAudit(@, "AUDIT_GENERATED"),
               !.call = DefiReturned("generateAuditProof", <<poolId>>,
                   [total         |-> defi.reserves[poolId].total,
                    available     |-> defi.reserves[poolId].available,
                    totalDeposits |-> reduceAmount(defi.deposits, poolId),
                    totalLoans    |-> reduceAmount(defi.loans, poolId),
                    isHealthy     |-> /\ defi.reserves[poolId].available >= 0
                                      /\ defi.reserves[poolId].required
                                            <= defi.reserves[poolId].total])]

(***************************************************************************)
(* RoyaltyDistribution (src/examples/mathematical_captcha.js).             *)
(*  - An amount is a whole number of units; a share is in fixed point.     *)
(*  - revenues and distributions are Maps under ids REV-<time>-<random>    *)
(*    and DIST-<time>-<random>: sequences, in the order of the calls; a    *)
(*    revenueId is a position in revenues.                                 *)
(*  - contributors is the list of a work's contributors, each an id and a  *)
(*    share.                                                               *)
(***************************************************************************)
\* the variables a RoyaltyDistribution call leaves alone
NotRoyalty ==
    <<covenantAccepted, institutionId, verificationCount, call, session, held,
      log, logTotal, gen, captcha, defi>>

addToLedger(ledger, event) ==
    Append(ledger, [index |-> Len(ledger), event |-> event, hash |-> fcHash(event)])

RECURSIVE reduceShare(_)
reduceShare(contributors) ==
    IF contributors = <<>> THEN 0
    ELSE Head(contributors).share + reduceShare(Tail(contributors))

RECURSIVE registerContributors(_, _, _)
registerContributors(registered, contributors, workId) ==
    IF contributors = <<>> THEN registered
    ELSE LET c == Head(contributors)
             before == IF c.id \in DOMAIN registered
                       THEN registered[c.id]
                       ELSE [works |-> <<>>, totalEarnings |-> 0, pendingPayouts |-> 0]
         IN  registerContributors(
                (c.id :> [before EXCEPT !.works = Append(@, workId)]) @@ registered,
                Tail(contributors), workId)

RECURSIVE creditContributors(_, _, _)
creditContributors(registered, contributors, amount) ==
    IF contributors = <<>> THEN registered
    ELSE LET c == Head(contributors)
         IN  creditContributors(
                [registered EXCEPT
                    ![c.id].totalEarnings = @ + times(amount, c.share),
                    ![c.id].pendingPayouts = @ + times(amount, c.share)],
                Tail(contributors), amount)

RegisterWork(workId, metadata, contributors) ==
    /\ UNCHANGED NotRoyalty
    /\ IF Abs(reduceShare(contributors) - One) > One \div 1000
       THEN royalty' = [royalty EXCEPT !.call =
                DefiThrown("registerWork", <<workId, metadata, contributors>>,
                           "Total shares must equal 100%")]
       ELSE royalty' = [royalty EXCEPT
               !.works = (workId :>
                    [metadata         |-> metadata,
                     contributors     |-> contributors,
                     proof            |-> fcEncode("ownershipProof"),
                     status           |-> "active",
                     totalRevenue     |-> 0,
                     totalDistributed |-> 0,
                     distributions    |-> <<>>]) @@ @,
               !.contributors = registerContributors(@, contributors, workId),
               !.ledger = addToLedger(@, "WORK_REGISTERED"),
               !.call = DefiReturned("registerWork", <<workId, metadata, contributors>>,
                           workId)]

RecordRevenue(workId, revenue) ==
    /\ UNCHANGED NotRoyalty
    /\ IF workId \notin DOMAIN royalty.works
       THEN royalty' = [royalty EXCEPT !.call =
                DefiThrown("recordRevenue", <<workId, revenue>>, "Work not found")]
       ELSE royalty' = [royalty EXCEPT
               !.revenues = Append(@, [proof  |-> fcEncode("revenueProof"),
                                       amount |-> revenue.amount,
                                       workId |-> workId,
                                       status |-> "recorded"]),
               !.works[workId].totalRevenue = @ + revenue.amount,
               !.ledger = addToLedger(@, "REVENUE_RECORDED"),
               !.call = DefiReturned("recordRevenue", <<workId, revenue>>,
                           [revenueId |-> Len(royalty.revenues) + 1,
                            workTotal |-> royalty.works[workId].totalRevenue
                                            + revenue.amount])]

DistributeRoyalties(workId, revenueId) ==
    /\ UNCHANGED NotRoyalty
    /\ IF workId \notin DOMAIN royalty.works \/ revenueId \notin DOMAIN royalty.revenues
       THEN royalty' = [royalty EXCEPT !.call =
                DefiThrown("distributeRoyalties", <<workId, revenueId>>,
                           "Work or revenue not found")]
       ELSE IF royalty.revenues[revenueId].status = "distributed"
       THEN royalty' = [royalty EXCEPT !.call =
                DefiThrown("distributeRoyalties", <<workId, revenueId>>,
                           "Revenue already distributed")]
       ELSE LET work == royalty.works[workId]
                revenue == royalty.revenues[revenueId]
                distributionId == Len(royalty.distributions) + 1
            IN  royalty' = [royalty EXCEPT
                   !.contributors = creditContributors(@, work.contributors, revenue.amount),
                   !.distributions = Append(@, [workId      |-> workId,
                                                revenueId   |-> revenueId,
                                                totalAmount |-> revenue.amount,
                                                status      |-> "completed"]),
                   !.works[workId].totalDistributed = @ + revenue.amount,
                   !.works[workId].distributions = Append(@, distributionId),
                   !.revenues[revenueId].status = "distributed",
                   !.ledger = addToLedger(@, "ROYALTIES_DISTRIBUTED"),
                   !.call = DefiReturned("distributeRoyalties", <<workId, revenueId>>,
                               [distributionId |-> distributionId,
                                totalAmount |-> revenue.amount])]

(***************************************************************************)
(* Inputs.                                                                 *)
(***************************************************************************)
\* space, 0, C, F, o, ~ and the root sign (U+221A), as code units
Alphabet == {32, 48, 67, 70, 111, 126, 8730}

TextsUpTo(n) == UNION {[1..k -> Alphabet] : k \in 0..n}

\* "", "F", "FC" and the root sign alone: the texts of a free-standing encode call
CallTexts == {<<>>, <<70>>, <<70, 67>>, <<8730>>}

InstitutionIds == {"Demo-Institution-2025", "MIT-MediaLab-2025"}

Agreements ==
    [humanitarianCommitment : BOOLEAN,
     cancerResearchSupport : BOOLEAN,
     openScienceCommitment : BOOLEAN]

\* "1-1" and "2+2" are in no catalog; "int(dx)" is in the advanced one only
ExpressionInputs == {"sqrt1", "0!", "sqrt36/6", "int(dx)", "2+2", "1-1", "invalid"}

\* 0, 1, 4, and two values 0.00005 and 0.0002 away from 1
ExpectedInputs == {0, One, 4 * Scale, One + 5, One + 20}

\* "", "LEV" and "Alice"
NameInputs == {<<>>, <<76, 69, 86>>, <<65, 108, 105, 99, 101>>}

NonZeroCells(cells) == {i \in 1..Len(cells) : cells[i] # "0"}

\* the rows of a grid with the i-th cell of the flattened grid replaced
ReplaceCell(grid, i, cell) ==
    LET cells == flat(grid)
    IN  formatAsGrid([j \in 1..Len(cells) |-> IF j = i THEN cell ELSE cells[j]], 8)

\* the rows of a grid without the last cell of the flattened grid
DropLastCell(grid) ==
    LET cells == flat(grid)
    IN  formatAsGrid(SubSeq(cells, 1, Len(cells) - 1), 8)

\* a grid as the caller got it, with one non-zero cell replaced by an expression
\* that evaluates to 0, or with its last cell lost
GridVariants(grid) ==
    LET cells == flat(grid)
    IN  {grid}
        \cup {ReplaceCell(grid, i, "1-1") :
                i \in {j \in NonZeroCells(cells) :
                         \/ \A k \in NonZeroCells(cells) : j <= k
                         \/ \A k \in NonZeroCells(cells) : j >= k}}
        \cup (IF cells = <<>> THEN {} ELSE {DropLastCell(grid)})

\* what encode returns for a text once the covenant is accepted
GridOf(text, useAdvanced) ==
    LET fractions == IF useAdvanced
                     THEN getStandardFractions \o getAdvancedFractions
                     ELSE getStandardFractions
    IN  formatAsGrid(encodeLoop(binaryOf(text), fractions, 0), 8)

GridInputs ==
    UNION {GridVariants(GridOf(text, useAdvanced)) :
             text \in CallTexts, useAdvanced \in BOOLEAN}

\* user names of up to two characters over A, B and o
ChallengeNames ==
    UNION {[1..n -> {65, 66, 111}] : n \in 0..2}

\* the texts of the standard catalog
StandardExpressions ==
    {getStandardFractions[i].expr : i \in DOMAIN getStandardFractions}

\* tolerances a caller passes as third argument: tighter than, equal to and
\* looser than 0.0001
ToleranceInputs == {1, Tolerance, 5 * Tolerance}

\* cell sequences and row widths handed to formatAsGrid
CellInputs == {"0", "sqrt1"}
CellSequences ==
    UNION {[1..n -> CellInputs] : n \in 0..MaxCells}
WidthInputs == 1..MaxWidth

\* operation names a caller of logVerification passes
OperationInputs == {"audit"}

\* no search was started
NoSearch == [target |-> 0, asked |-> 0, minCount |-> 0, attempts |-> 0,
             found |-> <<>>, status |-> "idle"]

\* new MathematicalCAPTCHA(): empty maps, successRate.human 0; the clock
\* (Date.now()) starts at 0, no session id was issued and nothing was called
NoCaptcha ==
    [challenges |-> <<>>, attempts |-> <<>>, human |-> 0, now |-> 0, issued |-> 0,
     call |-> [op |-> "new"]]

\* new DeFiReserveSystem(): no pool, no deposit, no loan
NoReserves ==
    [reserves |-> <<>>, deposits |-> <<>>, loans |-> <<>>, auditLog |-> <<>>,
     call |-> [op |-> "new"]]

\* new RoyaltyDistribution(): no work, no revenue
NoWorks ==
    [works |-> <<>>, contributors |-> <<>>, distributions |-> <<>>, revenues |-> <<>>,
     ledger |-> <<>>, call |-> [op |-> "new"]]

NoCall == [op |-> "new", args |-> <<>>, error |-> "none", result |-> <<>>]
NoSession == [text |-> <<>>, useAdvanced |-> FALSE, grid |-> <<>>, sent |-> FALSE]
NoHeld == [name |-> <<>>, setSize |-> 0, set |-> <<>>, kept |-> FALSE, count |-> 0]

(***************************************************************************)
(* The instance under arbitrary calls.                                     *)
(***************************************************************************)
Init ==
    /\ covenantAccepted = FALSE
    /\ institutionId = "null"
    /\ verificationCount = 0
    /\ call = NoCall
    /\ session = NoSession
    /\ held = NoHeld
    /\ log = <<>>
    /\ logTotal = 0
    /\ gen = NoSearch
    /\ captcha = NoCaptcha
    /\ defi = NoReserves
    /\ royalty = NoWorks

CallAcceptCovenant ==
    \E id \in InstitutionIds, covenantAgreement \in Agreements :
        /\ AcceptCovenant(id, covenantAgreement)
        /\ UNCHANGED <<session, held, gen, captcha, defi, royalty>>

CallEncode ==
    \E text \in CallTexts, useAdvanced \in BOOLEAN :
        /\ Encode(text, useAdvanced)
        /\ UNCHANGED <<session, held, gen, captcha, defi, royalty>>

CallVerify ==
    \E expression \in ExpressionInputs, expectedValue \in ExpectedInputs :
        /\ Verify(expression, expectedValue)
        /\ UNCHANGED <<session, held, gen, captcha, defi, royalty>>

CallDecode ==
    \E encodedGrid \in GridInputs :
        /\ Decode(encodedGrid)
        /\ UNCHANGED <<session, held, gen, captcha, defi, royalty>>

CallGenerateIdentitySet ==
    \E name \in NameInputs, setSize \in 0..MaxSetSize, keep \in BOOLEAN :
        /\ GenerateIdentitySet(name, setSize)
        /\ held' = IF keep /\ call'.error = "none"
                   THEN [name |-> name, setSize |-> setSize,
                         set |-> call'.result, kept |-> TRUE,
                         count |-> verificationCount]
                   ELSE held
        /\ UNCHANGED <<session, gen, captcha, defi, royalty>>

CallLogVerification ==
    \E operation \in OperationInputs :
        /\ LogVerification(operation)
        /\ UNCHANGED <<session, held, gen, captcha, defi, royalty>>

Next ==
    \/ CallAcceptCovenant
    \/ CallEncode
    \/ CallVerify
    \/ CallDecode
    \/ CallGenerateIdentitySet

Spec == Init /\ [][Next]_vars

(***************************************************************************)
(* The instance under the calls that log, logVerification itself among      *)
(* them: it is a method of the class like the others.                      *)
(***************************************************************************)
NextLog ==
    \/ CallAcceptCovenant
    \/ CallEncode
    \/ CallVerify
    \/ CallDecode
    \/ CallLogVerification

SpecLog == Init /\ [][NextLog]_vars

(***************************************************************************)
(* The pipeline of the quick start: accept the covenant, encode a text,    *)
(* decode the grid that came back (as it came back, or damaged on the      *)
(* way).                                                                   *)
(***************************************************************************)
CodecAccept ==
    /\ call.op = "new"
    /\ \E id \in InstitutionIds :
        AcceptCovenant(id, [humanitarianCommitment |-> TRUE,
                            cancerResearchSupport |-> TRUE,
                            openScienceCommitment |-> TRUE])
    /\ UNCHANGED <<session, held, gen, captcha, defi, royalty>>

CodecEncode ==
    /\ call.op = "acceptCovenant"
    /\ \E text \in TextsUpTo(MaxLen), useAdvanced \in BOOLEAN :
        /\ Encode(text, useAdvanced)
        /\ session' = [text |-> text, useAdvanced |-> useAdvanced,
                       grid |-> call'.result, sent |-> TRUE]
    /\ UNCHANGED <<held, gen, captcha, defi, royalty>>

CodecDecode ==
    /\ call.op = "encode"
    /\ \E encodedGrid \in GridVariants(session.grid) : Decode(encodedGrid)
    /\ UNCHANGED <<session, held, gen, captcha, defi, royalty>>

NextCodec == CodecAccept \/ CodecEncode \/ CodecDecode

SpecCodec == Init /\ [][NextCodec]_vars

(***************************************************************************)
(* Identity sets used as challenges: the covenant is accepted, then sets   *)
(* are generated for user names.                                           *)
(***************************************************************************)
CallGenerateChallenge ==
    \E name \in ChallengeNames, setSize \in 0..MaxChallenge :
        /\ GenerateIdentitySet(name, setSize)
        /\ UNCHANGED <<session, held, gen, captcha, defi, royalty>>

NextIdentity == CodecAccept \/ CallGenerateChallenge

SpecIdentity == Init /\ [][NextIdentity]_vars

(***************************************************************************)
(* formatAsGrid on its own, over cell sequences and row widths.            *)
(***************************************************************************)
CallFormatAsGrid ==
    \E encoded \in CellSequences, width \in WidthInputs :
        /\ FormatAsGrid(encoded, width)
        /\ UNCHANGED <<session, held, gen, captcha, defi, royalty>>

NextGrid == CallFormatAsGrid

SpecGrid == Init /\ [][NextGrid]_vars

(***************************************************************************)
(* verify on its own: the covenant is accepted, then every text of the     *)
(* standard catalog and the other texts are verified against the expected  *)
(* values, with and without a tolerance argument.                          *)
(***************************************************************************)
CallVerifyStandard ==
    \E expression \in StandardExpressions \cup ExpressionInputs,
       expectedValue \in ExpectedInputs :
        /\ Verify(expression, expectedValue)
        /\ UNCHANGED <<session, held, gen, captcha, defi, royalty>>

CallVerifyWith ==
    \E expression \in StandardExpressions \cup ExpressionInputs,
       expectedValue \in ExpectedInputs, tolerance \in ToleranceInputs :
        /\ VerifyWith(expression, expectedValue, tolerance)
        /\ UNCHANGED <<session, held, gen, captcha, defi, royalty>>

NextVerify == CodecAccept \/ CallVerifyStandard \/ CallVerifyWith

SpecVerify == Init /\ [][NextVerify]_vars

(***************************************************************************)
(* generateExpressions step by step: one attempt at a time until enough    *)
(* expressions are found, the candidates run out or the budget is spent.   *)
(***************************************************************************)
\* 0, 1, -1, 2, 7, 3.14159, and the largest and smallest finite numbers
TargetInputs ==
    {0, One, -One, 2 * Scale, 7 * Scale, 3 * Scale + 14159, FloatMax, -FloatMax}

\* minCount arguments; 0 stands for a call without one
MinCountInputs == {0, 1, 6, 30}

InitGenerator ==
    /\ covenantAccepted = FALSE
    /\ institutionId = "null"
    /\ verificationCount = 0
    /\ call = NoCall
    /\ session = NoSession
    /\ held = NoHeld
    /\ log = <<>>
    /\ logTotal = 0
    /\ captcha = NoCaptcha
    /\ defi = NoReserves
    /\ royalty = NoWorks
    /\ \E target \in TargetInputs, asked \in MinCountInputs :
           gen = [target |-> target, asked |-> asked,
                  minCount |-> IF asked = 0 THEN DefaultMinCount ELSE asked,
                  attempts |-> 0, found |-> <<>>, status |-> "running"]

Searching == gen.status = "running" /\ Len(gen.found) < gen.minCount

GenAttempt ==
    /\ Searching
    /\ WithinBudget(gen.attempts)
    /\ HasCandidate(gen.target, gen.attempts + 1)
    /\ LET candidate == Candidate(gen.target, gen.attempts + 1)
       IN  gen' = [gen EXCEPT
                     !.attempts = @ + 1,
                     !.found = IF Accepted(candidate, gen.target, @)
                               THEN Append(@, [text |-> candidate.text,
                                               value |-> candidate.value])
                               ELSE @]
    /\ UNCHANGED <<covenantAccepted, institutionId, verificationCount, call,
                   session, held, log, logTotal, captcha, defi, royalty>>

GenReturn ==
    /\ gen.status = "running"
    /\ Len(gen.found) >= gen.minCount
    /\ gen' = [gen EXCEPT !.status = "returned"]
    /\ UNCHANGED <<covenantAccepted, institutionId, verificationCount, call,
                   session, held, log, logTotal, captcha, defi, royalty>>

GenSearchExhausted ==
    /\ Searching
    /\ ~WithinBudget(gen.attempts)
    /\ gen' = [gen EXCEPT !.status = "SearchExhaustedError"]
    /\ UNCHANGED <<covenantAccepted, institutionId, verificationCount, call,
                   session, held, log, logTotal, captcha, defi, royalty>>

GenInsufficient ==
    /\ Searching
    /\ WithinBudget(gen.attempts)
    /\ ~HasCandidate(gen.target, gen.attempts + 1)
    /\ gen' = [gen EXCEPT !.status = "InsufficientDiversityError"]
    /\ UNCHANGED <<covenantAccepted, institutionId, verificationCount, call,
                   session, held, log, logTotal, captcha, defi, royalty>>

NextGenerator == GenAttempt \/ GenReturn \/ GenSearchExhausted \/ GenInsufficient

SpecGenerator ==
    InitGenerator /\ [][NextGenerator]_vars /\ WF_vars(NextGenerator)

(***************************************************************************)
(* CAPTCHA sessions: challenges are issued, answered and left to expire.   *)
(***************************************************************************)
MaxSessions == 1
MaxSteps == 3

\* the first `valid` valid options and the first `invalid` invalid options
\* of a challenge, in the order shown
AnswersOf(challenge, valid, invalid) ==
    LET firstIds(isValid, count) ==
            LET shown == SelectSeq(challenge.visual, LAMBDA v : v.isValid = isValid)
            IN  {shown[k].id : k \in 1..Min(count, Len(shown))}
    IN  firstIds(TRUE, valid) \cup firstIds(FALSE, invalid)

\* answers of a session spec: nothing, the three grandma options, the six
\* options a medium challenge shows first, one right and one wrong option
AnswerInputs ==
    { {},
      {<<"opt", k>> : k \in 1..3},
      {<<"visual", index>> : index \in 0..5},
      {<<"opt", 1>>, <<"wrong", 1>>, <<"visual", 0>>, <<"visual", 11>>} }

CaptchaGenerate ==
    /\ captcha.issued < MaxSessions
    /\ \E difficulty \in {"easy", "medium"} :
          GenerateChallenge(difficulty, 10, "keep")

CaptchaGenerateGrandma ==
    /\ captcha.issued < MaxSessions
    /\ \E difficulty \in {"grandma", "easy"} :
          GenerateGrandmaChallenge(difficulty, 3, "front")

\* a response to a session that is open, or to an id that is not
CaptchaVerify ==
    \E sessionId \in DOMAIN captcha.challenges \cup 1..MaxSessions :
        \E userAnswers \in AnswerInputs :
            VerifyResponse(sessionId, userAnswers)

CaptchaElapse ==
    /\ captcha.now < MaxSteps * ChallengeLifetime
    /\ Elapse(ChallengeLifetime)

NextCaptcha == CaptchaGenerate \/ CaptchaGenerateGrandma \/ CaptchaVerify \/ CaptchaElapse

SpecCaptcha == Init /\ [][NextCaptcha]_vars

(***************************************************************************)
(* One challenge of every kind, answered with every number of right and     *)
(* wrong options.                                                           *)
(***************************************************************************)
\* targets tried: the ends of the ranges, and 47 with a neighbour
CaptchaTargets == {1, 4, 10, 47, 48}

ScoreGenerate ==
    /\ captcha.issued = 0
    /\ \E difficulty \in {"easy", "medium", "hard", "expert"}, target \in CaptchaTargets,
          rule \in ShuffleRules :
          GenerateChallenge(difficulty, target, rule)

ScoreGenerateGrandma ==
    /\ captcha.issued = 0
    /\ \E target \in CaptchaTargets, rule \in ShuffleRules :
          GenerateGrandmaChallenge("grandma", target, rule)

ScoreVerify ==
    \E sessionId \in DOMAIN captcha.challenges :
        \E valid \in 0..7, invalid \in 0..6, unknown \in SUBSET {<<"opt", 4>>} :
            VerifyResponse(sessionId,
                AnswersOf(captcha.challenges[sessionId], valid, invalid) \cup unknown)

NextScore == ScoreGenerate \/ ScoreGenerateGrandma \/ ScoreVerify

SpecScore == Init /\ [][NextScore]_vars

(***************************************************************************)
(* A reserve pool under deposits, loans and audits.                        *)
(***************************************************************************)
MaxAudit == 4

PoolIds == {"POOL-001"}

AmountInputs == {100, 1000}

RatioInputs == {One \div 5, One \div 2}

RequestInputs == {80, 500, 800}

DefiCreate ==
    /\ Len(defi.auditLog) < MaxAudit
    /\ \E poolId \in PoolIds, initialAmount \in AmountInputs, reserveRatio \in RatioInputs :
          CreateReservePool(poolId, initialAmount, reserveRatio)

DefiDeposit ==
    /\ Len(defi.auditLog) < MaxAudit
    /\ \E poolId \in PoolIds, amount \in AmountInputs :
          ProcessDeposit("USER-001", amount, poolId)

DefiLoan ==
    /\ Len(defi.auditLog) < MaxAudit
    /\ \E poolId \in PoolIds, requestAmount \in RequestInputs :
          IssueLoan("BORROWER-001", requestAmount, "ETH", poolId)

DefiAudit ==
    /\ Len(defi.auditLog) < MaxAudit
    /\ \E poolId \in PoolIds : GenerateAuditProof(poolId)

NextDefi == DefiCreate \/ DefiDeposit \/ DefiLoan \/ DefiAudit

SpecDefi == Init /\ [][NextDefi]_vars

(***************************************************************************)
(* Works, their revenues and the distributions of them.                    *)
(***************************************************************************)
MaxLedger == 4

WorkIds == {"WORK-001", "WORK-002"}

\* two contributors sharing a work 60 : 40, and a list that adds up to 90%
ContributorInputs ==
    { << [id |-> "ARTIST-001", share |-> 6 * (One \div 10)],
         [id |-> "PRODUCER-001", share |-> 4 * (One \div 10)] >>,
      << [id |-> "ARTIST-001", share |-> 6 * (One \div 10)],
         [id |-> "PRODUCER-001", share |-> 3 * (One \div 10)] >> }

RevenueInputs == {[amount |-> 100, source |-> "streaming"],
                  [amount |-> 250, source |-> "sales"]}

RoyaltyRegister ==
    /\ Len(royalty.ledger) < MaxLedger
    /\ \E workId \in WorkIds, contributors \in ContributorInputs :
          RegisterWork(workId, "music", contributors)

RoyaltyRecord ==
    /\ Len(royalty.ledger) < MaxLedger
    /\ \E workId \in WorkIds, revenue \in RevenueInputs : RecordRevenue(workId, revenue)

RoyaltyDistribute ==
    /\ Len(royalty.ledger) < MaxLedger
    /\ \E workId \in WorkIds, revenueId \in 1..(Len(royalty.revenues) + 1) :
          DistributeRoyalties(workId, revenueId)

NextRoyalty == RoyaltyRegister \/ RoyaltyRecord \/ RoyaltyDistribute

SpecRoyalty == Init /\ [][NextRoyalty]_vars

(***************************************************************************)
(* Properties.                                                             *)
(***************************************************************************)
CoreOps == {"encode", "verify", "decode", "generateIdentitySet"}

\* every character is printable ASCII
Printable(text) == \A i \in 1..Len(text) : 32 <= text[i] /\ text[i] <= 126

\* the last call decoded the grid that encode returned to the caller, untouched
DecodedOwnGrid ==
    /\ call.op = "decode"
    /\ session.sent
    /\ call.args[1] = session.grid

FailsVerification(cell) == cell # "0" /\ ~verify(cell, One).result

\* C2: decode raises AmbiguousCellError whenever a cell other than "0" fails
\* verify(cell, 1), and then returns no decoded string.
C2_TamperRaises ==
    (/\ call.op = "decode"
     /\ covenantAccepted
     /\ \E i \in 1..Len(flat(call.args[1])) : FailsVerification(flat(call.args[1])[i]))
        => call.error = "AmbiguousCellError"

\* C3: while acceptCovenant has never succeeded on the instance, every call to
\* encode, verify, decode or generateIdentitySet throws an Error.
C3_ThrowsBeforeCovenant ==
    (call.op \in CoreOps /\ ~covenantAccepted) => call.error = "Error"

\* encode was called before any acceptance and threw
C3_Witness ==
    /\ call.op = "encode"
    /\ ~covenantAccepted
    /\ call.error = "Error"

\* C4: decode fails with DecodeError whenever the flattened grid has a number of
\* cells that is not a multiple of 8.
C4_MisalignedRaises ==
    (/\ call.op = "decode"
     /\ covenantAccepted
     /\ Len(flat(call.args[1])) % 8 # 0)
        => call.error = "DecodeError"

\* the value an expression text denotes: the catalog's own for a catalog
\* entry, 4 for "2+2" and 0 for "1-1"; "invalid" denotes none
Denotes(expression) ==
    LET all == getStandardFractions \o getAdvancedFractions
        hits == {i \in DOMAIN all : all[i].expr = expression}
    IN  IF hits # {} THEN {all[i].value : i \in hits}
        ELSE IF expression = "2+2" THEN {4 * Scale}
        ELSE IF expression = "1-1" THEN {0}
        ELSE {}

\* C5: after acceptance, verify(text, expected) returns true exactly when the
\* value of the expression differs from expected by less than the tolerance.
C5_VerifyByValue ==
    (call.op = "verify" /\ call.error = "none")
        => \A v \in Denotes(call.args[1]) :
              call.result <=> (Abs(v - call.args[2]) < Tolerance)

\* bit i (from 1) of the concatenated 8-bit representations of the characters
Bit8(text, i) == (text[((i - 1) \div 8) + 1] \div (2 ^ (7 - ((i - 1) % 8)))) % 2

\* C6: for every text, cell i of the flattened encode(text) is "0" exactly when
\* bit i of the concatenated 8-bit character representations is 0, and is
\* otherwise the text of a catalog expression that evaluates to 1.
C6_CellsFollowBits ==
    (call.op = "encode" /\ call.error = "none")
        => LET text == call.args[1]
               cells == flat(call.result)
               all == getStandardFractions \o getAdvancedFractions
           IN  /\ DOMAIN cells = 1..(8 * Len(text))
               /\ \A i \in DOMAIN cells :
                    /\ cells[i] = "0" <=> Bit8(text, i) = 0
                    /\ cells[i] # "0" =>
                         \E k \in DOMAIN all :
                            all[k].expr = cells[i] /\ all[k].value = One

\* C7: for every text passed to encode, the returned grid, flattened, holds
\* exactly 8 x length(text) cells.
C7_EightCellsPerCharacter ==
    (call.op = "encode" /\ call.error = "none")
        => Len(flat(call.result)) = 8 * Len(call.args[1])

\* C8: after acceptance, decode(encode(s, true)) returns exactly s for every
\* printable-ASCII text s.
C8_RoundTripAdvanced ==
    (DecodedOwnGrid /\ session.useAdvanced /\ Printable(session.text))
        => (call.error = "none" /\ call.result = session.text)

\* C9: two calls of generateIdentitySet with the same (name, size) return the
\* same sequence, whatever was called on the instance between them.
C9_SameIdentitySet ==
    (/\ call.op = "generateIdentitySet"
     /\ call.error = "none"
     /\ held.kept
     /\ held.name = call.args[1]
     /\ held.setSize = call.args[2])
        => call.result = held.set

\* generateIdentitySet("Alice", 2) is repeated after logged calls in between
C9_Witness ==
    /\ call.op = "generateIdentitySet"
    /\ call.error = "none"
    /\ held.kept
    /\ held.name = <<65, 108, 105, 99, 101>>
    /\ call.args = <<held.name, 2>>
    /\ held.setSize = 2
    /\ held.count < verificationCount

\* C10 as stated: encode, verify, decode and generateIdentitySet change no
\* field of the instance.
C10_SideEffectFree ==
    [][call'.op \in CoreOps
          => UNCHANGED <<covenantAccepted, institutionId, verificationCount>>]_vars

\* C10 as amended: none of the four calls changes covenantAccepted or
\* institutionId; generateIdentitySet changes no field; encode, verify and
\* decode change verificationCount only, and never decrease it.
C10_OnlyCountChanges ==
    [][call'.op \in CoreOps
          => /\ UNCHANGED <<covenantAccepted, institutionId>>
             /\ verificationCount' >= verificationCount
             /\ call'.op = "generateIdentitySet"
                   => verificationCount' = verificationCount]_vars

\* an accepted encode has been logged
C10_Witness ==
    /\ call.op = "encode"
    /\ call.error = "none"
    /\ verificationCount > 0

\* all three commitments of the agreement are true
AllCommitted(covenantAgreement) ==
    /\ covenantAgreement.humanitarianCommitment
    /\ covenantAgreement.cancerResearchSupport
    /\ covenantAgreement.openScienceCommitment

\* C11: acceptCovenant returns true and marks the instance accepted only when
\* humanitarianCommitment, cancerResearchSupport and openScienceCommitment are
\* all true; with any of them false it throws an Error.
C11_AllThreeCommitments ==
    call.op = "acceptCovenant"
        => IF AllCommitted(call.args[2])
           THEN call.error = "none" /\ call.result = TRUE /\ covenantAccepted
           ELSE call.error # "none"

\* the positions, counted from 0, of the cells of a row that are not "0"
NonZeroPositions(row) == {i \in 0..(Len(row) - 1) : row[i + 1] # "0"}

\* the last call was an accepted encode("FC") with the standard catalog
EncodedFC ==
    /\ call.op = "encode"
    /\ call.error = "none"
    /\ call.args = <<(<<70, 67>>), FALSE>>

\* C12 as stated: encode("FC") returns 2 rows of 8 cells whose non-zero cells
\* are at positions 0, 2, 3, 6 of row 1 and 1, 2, 6, 7 of row 2.
C12_StatedPositions ==
    EncodedFC
        => /\ Len(call.result) = 2
           /\ Len(flat(call.result)) = 16
           /\ NonZeroPositions(call.result[1]) = {0, 2, 3, 6}
           /\ NonZeroPositions(call.result[2]) = {1, 2, 6, 7}

\* C12 as amended: encode("FC") returns exactly 2 rows of 8 cells (16 cells)
\* whose non-zero cells are at positions 1, 5, 6 of row 1 and 1, 6, 7 of
\* row 2, counted from 0: the 1-bits of 01000110 01000011.
C12_BitPositions ==
    EncodedFC
        => /\ Len(call.result) = 2
           /\ Len(call.result[1]) = 8
           /\ Len(call.result[2]) = 8
           /\ Len(flat(call.result)) = 16
           /\ NonZeroPositions(call.result[1]) = {1, 5, 6}
           /\ NonZeroPositions(call.result[2]) = {1, 6, 7}
           /\ [i \in 1..16 |-> IF flat(call.result)[i] = "0" THEN 0 ELSE 1]
                 = <<0, 1, 0, 0, 0, 1, 1, 0, 0, 1, 0, 0, 0, 0, 1, 1>>

\* encode("FC") returned its grid
C12_Witness == EncodedFC /\ Len(call.result) = 2

\* the pool an encode call with this useAdvanced cycles through
PoolOf(useAdvanced) ==
    IF useAdvanced THEN getStandardFractions \o getAdvancedFractions
    ELSE getStandardFractions

\* the expressions an encode result gave to its 1-bits, in bit order
OneCells(grid) == SelectSeq(flat(grid), LAMBDA cell : cell # "0")

\* C19: within one encode call the k-th 1-bit receives the expression
\* pool[(k - 1) mod Len(pool)] (pool counted from 0); consecutive 1-bits get
\* different expressions, and no expression is used again before every pool
\* entry was used once.
C19_CyclesThroughPool ==
    (call.op = "encode" /\ call.error = "none")
        => LET pool == PoolOf(call.args[2])
               ones == OneCells(call.result)
           IN  \A k \in 1..Len(ones) :
                   /\ ones[k] = pool[((k - 1) % Len(pool)) + 1].expr
                   /\ k > 1 => ones[k] # ones[k - 1]
                   /\ \A j \in 1..(k - 1) :
                          ones[j] = ones[k] => k - j >= Len(pool)

\* an encode call with more 1-bits than the standard pool has entries
C19_Witness ==
    /\ call.op = "encode"
    /\ call.error = "none"
    /\ ~call.args[2]
    /\ Len(OneCells(call.result)) > Len(getStandardFractions)
    /\ OneCells(call.result)[Len(getStandardFractions) + 1] = getStandardFractions[1].expr

\* texts that are no expression: an unknown word, a doubled operator, a
\* division by zero
Malformed == {"invalid", "1++1", "1/0"}

\* C15: evaluating an unrecognized or malformed expression text fails closed
\* with an error; it is never turned into a number, 0 or NaN.
C15_FailsClosed ==
    (call.op = "verify" /\ covenantAccepted /\ call.args[1] \in Malformed)
        => call.error # "none"

\* C20: verificationCount starts at 0, never decreases and grows by exactly 1
\* with every logVerification call, so that it equals the number of logged
\* operations and the n-th log entry carries verificationId n: the ids are
\* unique.
C20_CountsLoggedOperations ==
    /\ verificationCount = logTotal
    /\ verificationCount >= 0
    /\ \A i \in 1..Len(log) :
           log[i].verificationId = logTotal - Len(log) + i
    /\ \A i, j \in 1..Len(log) :
           log[i].verificationId = log[j].verificationId => i = j

\* a decode that logged its verify calls and then itself, after an earlier
\* entry
C20_Witness ==
    /\ call.op = "decode"
    /\ Len(log) > 2
    /\ log[1].operation = "verify"
    /\ log[1].verificationId = 2
    /\ log[Len(log)].operation = "decode"
    /\ log[Len(log)].verificationId = verificationCount

ValueOf(expression) == getStandardFractions[find(expression)].value

\* the last call was an accepted verify with a tolerance argument
VerifiedWithTolerance ==
    /\ call.op = "verify"
    /\ Len(call.args) = 3
    /\ call.error = "none"

C18_StandardEntriesAreOne ==
    /\ \A i \in DOMAIN getStandardFractions :
           Abs(getStandardFractions[i].value - One) < Tolerance
    /\ (/\ call.op = "verify"
        /\ covenantAccepted
        /\ call.args[1] \in StandardExpressions
        /\ call.args[2] = One)
          => (call.error = "none" /\ call.result = TRUE)

\* verify("sqrt4/2", 1) returned true after the covenant was accepted
C18_Witness ==
    /\ call.op = "verify"
    /\ covenantAccepted
    /\ call.args = <<"sqrt4/2", One>>
    /\ call.result = TRUE

\* the texts of a sequence of expressions differ pairwise
Distinct(found) ==
    \A i, j \in 1..Len(found) : found[i].text = found[j].text => i = j

Ended == {"returned", "SearchExhaustedError", "InsufficientDiversityError"}

\* C14: generateExpressions terminates for every target, the largest finite
\* number included: it never makes more than 100 x 100 attempts, and it ends
\* by returning or by failing with SearchExhaustedError or
\* InsufficientDiversityError.
C14_Terminates ==
    /\ [](gen.attempts <= MaxAttempts)
    /\ <>(gen.status \in Ended)

\* a search for -FloatMax that spent its whole budget
C14_Witness ==
    /\ gen.status = "SearchExhaustedError"
    /\ gen.attempts = MaxAttempts
    /\ gen.target = -FloatMax

\* C21: covenant acceptance is irrevocable on an instance: once acceptCovenant
\* has succeeded, covenantAccepted stays true after every later operation; a
\* later acceptCovenant call that throws changes neither covenantAccepted nor
\* institutionId.
C21_AcceptanceIrrevocable ==
    [][/\ covenantAccepted => covenantAccepted'
       /\ (covenantAccepted /\ call'.op = "acceptCovenant" /\ call'.error # "none")
             => UNCHANGED <<covenantAccepted, institutionId>>]_vars

\* an accepted instance on which a later acceptCovenant threw
C21_Witness ==
    /\ covenantAccepted
    /\ institutionId # "null"
    /\ call.op = "acceptCovenant"
    /\ call.error # "none"

\* C22: after covenant acceptance, for every name and size, every expression
\* e of generateIdentitySet(name, size) satisfies verify(e.expr, 1) == true.
C22_IdentitySetVerifies ==
    (call.op = "generateIdentitySet" /\ call.error = "none")
        => \A i \in 1..Len(call.result) :
               verify(call.result[i].expr, One).result = TRUE


\* A step that is a verifyResponse call (and changes something).
VerifyStep ==
    /\ captcha' # captcha
    /\ captcha'.now = captcha.now
    /\ captcha'.issued = captcha.issued
    /\ captcha'.call.op = "verifyResponse"

\* How many responses of a session were scored: its logged attempts.
ScoredCount(c, sessionId) ==
    IF sessionId \in DOMAIN c.attempts THEN Len(c.attempts[sessionId]) ELSE 0

Live(sessionId) == sessionId \in DOMAIN captcha.challenges

LimitOf(challenge) ==
    IF challenge.difficulty = "grandma" THEN GrandmaMaxAttempts ELSE ChallengeMaxAttempts

Rejected(result, reason) ==
    /\ result.valid = FALSE
    /\ "reason" \in DOMAIN result
    /\ result.reason = reason

\* What every reading of C23 shares: a live session has scored as many
\* responses as its attempts say, at most its limit (3, or 5 in grandma mode);
\* a call scores at most one response, of its own session, and only below
\* the limit; the call after the limit scores nothing and removes the session.
ScoringBounded ==
    /\ \A t \in DOMAIN captcha.challenges :
          /\ captcha.challenges[t].maxAttempts = LimitOf(captcha.challenges[t])
          /\ ScoredCount(captcha, t) = captcha.challenges[t].attempts
          /\ ScoredCount(captcha, t) <= captcha.challenges[t].maxAttempts
    /\ \A t \in 1..captcha.issued :
          /\ ScoredCount(captcha', t) >= ScoredCount(captcha, t)
          /\ ScoredCount(captcha', t) > ScoredCount(captcha, t)
                => /\ VerifyStep
                   /\ captcha'.call.args[1] = t
                   /\ Live(t)
                   /\ ScoredCount(captcha', t) = ScoredCount(captcha, t) + 1
                   /\ ScoredCount(captcha', t) <= captcha.challenges[t].maxAttempts

AtTheLimit(sessionId) ==
    /\ Live(sessionId)
    /\ ScoredCount(captcha, sessionId) = captcha.challenges[sessionId].maxAttempts

\* C23 as stated: at most maxAttempts responses of a session are scored, and
\* the call that follows maxAttempts scored responses answers valid: false,
\* 'Too many attempts', scores nothing and removes the session.
C23_TooManyAttempts ==
    [][/\ ScoringBounded
       /\ VerifyStep /\ AtTheLimit(captcha'.call.args[1])
            => /\ ScoredCount(captcha', captcha'.call.args[1])
                    = ScoredCount(captcha, captcha'.call.args[1])
               /\ captcha'.call.args[1] \notin DOMAIN captcha'.challenges
               /\ Rejected(captcha'.call.result, "Too many attempts")]_vars

\* C23, amended: at most maxAttempts responses of a session (3, or 5 in
\* grandma mode) are ever scored; the call that follows maxAttempts scored
\* responses answers valid: false, scores nothing and removes the session,
\* with reason 'Too many attempts' while the challenge has not expired and
\* 'Challenge expired' once it has.
C23_AtMostMaxAttemptsScored ==
    [][/\ ScoringBounded
       /\ VerifyStep /\ AtTheLimit(captcha'.call.args[1])
            => /\ ScoredCount(captcha', captcha'.call.args[1])
                    = ScoredCount(captcha, captcha'.call.args[1])
               /\ captcha'.call.args[1] \notin DOMAIN captcha'.challenges
               /\ Rejected(captcha'.call.result,
                     IF captcha.now > captcha.challenges[captcha'.call.args[1]].expires
                     THEN "Challenge expired" ELSE "Too many attempts")]_vars

\* a sixth response to a grandma challenge was turned away unscored
C23_Witness ==
    /\ captcha.call.op = "verifyResponse"
    /\ Rejected(captcha.call.result, "Too many attempts")
    /\ ScoredCount(captcha, captcha.call.args[1]) = GrandmaMaxAttempts
    /\ captcha.call.args[1] \notin DOMAIN captcha.challenges

\* C24: a session is single-use. The call that returns valid: true, or that
\* rejects the session as expired or over the limit, removes the session; a
\* removed session never comes back; and every verifyResponse on a removed
\* session answers valid: false, 'Session expired or invalid', whatever the
\* answers.
C24_SingleUse ==
    [][/\ VerifyStep /\ (\/ captcha'.call.result.valid
                         \/ Rejected(captcha'.call.result, "Challenge expired")
                         \/ Rejected(captcha'.call.result, "Too many attempts"))
            => captcha'.call.args[1] \notin DOMAIN captcha'.challenges
       /\ \A t \in 1..captcha.issued :
            ~Live(t) => t \notin DOMAIN captcha'.challenges
       /\ VerifyStep /\ captcha'.call.args[1] \in 1..captcha.issued
                     /\ ~Live(captcha'.call.args[1])
            => /\ Rejected(captcha'.call.result, "Session expired or invalid")
               /\ captcha'.challenges = captcha.challenges
               /\ captcha'.attempts = captcha.attempts
               /\ captcha'.human = captcha.human]_vars

\* a session that was answered correctly is answered again, with the same
\* correct answers, and is turned away
C24_Witness ==
    /\ captcha.call.op = "verifyResponse"
    /\ Rejected(captcha.call.result, "Session expired or invalid")
    /\ captcha.call.args[1] \in DOMAIN captcha.attempts
    /\ captcha.attempts[captcha.call.args[1]][Len(captcha.attempts[captcha.call.args[1]])].valid
    /\ captcha.call.args[2] = {<<"opt", k>> : k \in 1..3}

\* The shares of C27, computed from the options shown and the options
\* selected: the valid options selected among the valid options, and the
\* valid options selected among them and the mistakes (valid options left
\* out, invalid options selected).
ShownIds(challenge, isValid) ==
    {challenge.visual[k].id :
        k \in {n \in 1..Len(challenge.visual) : challenge.visual[n].isValid = isValid}}

MeetsThresholds(challenge, answers) ==
    LET right == Cardinality(ShownIds(challenge, TRUE) \cap answers)
        missed == Cardinality(ShownIds(challenge, TRUE) \ answers)
        wrong == Cardinality(ShownIds(challenge, FALSE) \cap answers)
    IN  /\ right + missed > 0
        /\ 100 * right >= 80 * (right + missed)
        /\ right + missed + wrong > 0
        /\ 100 * right >= 60 * (right + missed + wrong)

ScoredStep ==
    /\ VerifyStep
    /\ Live(captcha'.call.args[1])
    /\ captcha.now <= captcha.challenges[captcha'.call.args[1]].expires
    /\ captcha.challenges[captcha'.call.args[1]].attempts
          < captcha.challenges[captcha'.call.args[1]].maxAttempts

\* C27: a scored response is accepted exactly when at least 80% of the valid
\* options are selected and the precision correct / (correct + incorrect) is
\* at least 60%; no response is accepted otherwise.
C27_AcceptedAtThresholds ==
    [][/\ ScoredStep
            => captcha'.call.result.valid
                  = MeetsThresholds(captcha.challenges[captcha'.call.args[1]],
                                    captcha'.call.args[2])
       /\ VerifyStep /\ captcha'.call.result.valid => ScoredStep]_vars

\* accepted with exactly 80% of the valid options: four of five
C27_Witness ==
    /\ captcha.call.op = "verifyResponse"
    /\ captcha.call.result.valid
    /\ captcha.call.result.score = <<4, 5>>


====
